---- MODULE Spec2Model ----
(***************************************************************************)
(* Model of src/main.cc: the escape-time kernel of ComputeMandelbrotRow    *)
(* in IEEE-754 arithmetic, and the work distribution of WorkStealing and   *)
(* ComputeMandelbrot over the shared cursor nextRow guarded by stealLock.  *)
(***************************************************************************)
EXTENDS Integers, Sequences, FiniteSets, TLC

(***************************************************************************)
(* Natural numbers of any size, as sequences of limbs in base 2^12, least  *)
(* significant limb first, without leading zero limbs (<<>> is 0).  They   *)
(* carry the exact products and sums that the floating-point operations    *)
(* round.                                                                  *)
(***************************************************************************)
LimbBits == 12

Pow2(k) == 2 ^ k

Base == Pow2(LimbBits)

RECURSIVE Trim(_)
Trim(a) ==
    IF Len(a) = 0 THEN a
    ELSE IF a[Len(a)] = 0 THEN Trim(SubSeq(a, 1, Len(a) - 1))
    ELSE a

\* Propagates carries through a sequence of integer coefficients whose
\* weighted sum is a natural number.
RECURSIVE Carry(_, _, _, _)
Carry(c, j, carry, acc) ==
    IF j > Len(c)
    THEN IF carry = 0 THEN acc
         ELSE Carry(c, j, carry \div Base, Append(acc, carry % Base))
    ELSE Carry(c, j + 1, (c[j] + carry) \div Base,
               Append(acc, (c[j] + carry) % Base))

Normalise(c) == Trim(Carry(c, 1, 0, <<>>))

Limb(a, j) == IF j >= 1 /\ j <= Len(a) THEN a[j] ELSE 0

MaxOf(v, y) == IF v >= y THEN v ELSE y

MinOf(v, y) == IF v <= y THEN v ELSE y

BigFromInt(n) == Normalise(<<n>>)

BigAdd(a, b) ==
    Normalise([j \in 1..MaxOf(Len(a), Len(b)) |-> Limb(a, j) + Limb(b, j)])

\* a - b, for a >= b
BigSub(a, b) ==
    Normalise([j \in 1..MaxOf(Len(a), Len(b)) |-> Limb(a, j) - Limb(b, j)])

RECURSIVE SumProd(_, _, _, _)
SumProd(a, b, k, j) ==
    IF j > Len(a) THEN 0
    ELSE Limb(a, j) * Limb(b, k - j + 1) + SumProd(a, b, k, j + 1)

BigMul(a, b) ==
    IF Len(a) = 0 \/ Len(b) = 0 THEN <<>>
    ELSE Normalise([k \in 1..(Len(a) + Len(b)) |-> SumProd(a, b, k, 1)])

RECURSIVE CmpFrom(_, _, _)
CmpFrom(a, b, j) ==
    IF j = 0 THEN 0
    ELSE IF a[j] > b[j] THEN 1
    ELSE IF a[j] < b[j] THEN -1
    ELSE CmpFrom(a, b, j - 1)

\* -1, 0 or 1 as a < b, a = b, a > b
BigCmp(a, b) ==
    IF Len(a) > Len(b) THEN 1
    ELSE IF Len(a) < Len(b) THEN -1
    ELSE CmpFrom(a, b, Len(a))

\* the number of bits of n, for 0 <= n < 2^30
IntBitLen(n) == CHOOSE b \in 0..30 : n < Pow2(b) /\ (b = 0 \/ n >= Pow2(b - 1))

BigBitLen(a) ==
    IF Len(a) = 0 THEN 0
    ELSE (Len(a) - 1) * LimbBits + IntBitLen(a[Len(a)])

\* a * 2^k
BigShl(a, k) ==
    LET q == k \div LimbBits
        r == k % LimbBits
    IN  IF Len(a) = 0 THEN <<>>
        ELSE Normalise([j \in 1..(Len(a) + q) |->
                           IF j <= q THEN 0 ELSE a[j - q] * Pow2(r)])

\* floor(a / 2^k)
BigShr(a, k) ==
    LET q == k \div LimbBits
        r == k % LimbBits
        n == Len(a) - q
    IN  IF n <= 0 THEN <<>>
        ELSE Trim([j \in 1..n |->
                     (a[j + q] \div Pow2(r))
                     + (Limb(a, j + q + 1) % Pow2(r)) * Pow2(LimbBits - r)])

\* bit j of a, bit 0 the least significant
BigBit(a, j) == (Limb(a, (j \div LimbBits) + 1) \div Pow2(j % LimbBits)) % 2

\* TRUE iff a mod 2^k is not zero
BigLowNonZero(a, k) ==
    LET q == k \div LimbBits
        r == k % LimbBits
    IN  \/ \E j \in 1..MinOf(q, Len(a)) : a[j] # 0
        \/ Limb(a, q + 1) % Pow2(r) # 0

RECURSIVE BigToIntFrom(_, _)
BigToIntFrom(a, j) ==
    IF j > Len(a) THEN 0 ELSE a[j] + Base * BigToIntFrom(a, j + 1)

\* for a < 2^31
BigToInt(a) == BigToIntFrom(a, 1)

(***************************************************************************)
(* IEEE-754 values.  A value is a record: k is "fin", "inf" or "nan"; s is *)
(* the sign bit; a finite value is (-1)^s * n * 2^e with n a natural       *)
(* number as above.  A format gives the precision p in bits, the exponent  *)
(* emin of the least significant bit of a subnormal and the exponent emax  *)
(* of the leading bit of the largest finite value.  A value of a format is *)
(* kept in the one form RoundTo produces, so that equal values other than  *)
(* the two zeros are equal records.                                        *)
(***************************************************************************)
F32 == [p |-> 24, emin |-> -149, emax |-> 127]

F64 == [p |-> 53, emin |-> -1074, emax |-> 1023]

NaN == [k |-> "nan", s |-> 0, n |-> <<>>, e |-> 0]

Inf(s) == [k |-> "inf", s |-> s, n |-> <<>>, e |-> 0]

Zero(s) == [k |-> "fin", s |-> s, n |-> <<>>, e |-> 0]

Fin(s, n, e) == IF Len(n) = 0 THEN Zero(s)
                ELSE [k |-> "fin", s |-> s, n |-> n, e |-> e]

IsZero(v) == v.k = "fin" /\ Len(v.n) = 0

\* Round to nearest, ties to even, into the format fmt.
RoundTo(v, fmt) ==
    IF v.k # "fin" \/ Len(v.n) = 0 THEN v
    ELSE
      LET L  == BigBitLen(v.n)
          q  == MaxOf(v.e + L - fmt.p, fmt.emin)
          d  == q - v.e
          M  == BigShr(v.n, d)
          up == /\ BigBit(v.n, d - 1) = 1
                /\ (BigLowNonZero(v.n, d - 1) \/ BigBit(M, 0) = 1)
          M1 == IF d <= 0 THEN BigShl(v.n, -d)
                ELSE IF up THEN BigAdd(M, <<1>>) ELSE M
          ov == BigBitLen(M1) > fmt.p
          M2 == IF ov THEN BigShr(M1, 1) ELSE M1
          q2 == IF ov THEN q + 1 ELSE q
      IN  IF Len(M2) = 0 THEN Zero(v.s)
          ELSE IF q2 + BigBitLen(M2) - 1 > fmt.emax THEN Inf(v.s)
          ELSE Fin(v.s, M2, q2)

XNeg(v) == IF v.k = "nan" THEN v ELSE [v EXCEPT !.s = 1 - v.s]

XAbs(v) == IF v.k = "nan" THEN v ELSE [v EXCEPT !.s = 0]

\* the exact product
XMul(a, b) ==
    LET s == (a.s + b.s) % 2
    IN  IF a.k = "nan" \/ b.k = "nan" THEN NaN
        ELSE IF a.k = "inf" \/ b.k = "inf"
             THEN IF IsZero(a) \/ IsZero(b) THEN NaN ELSE Inf(s)
        ELSE Fin(s, BigMul(a.n, b.n), a.e + b.e)

\* the exact sum
XAdd(a, b) ==
    IF a.k = "nan" \/ b.k = "nan" THEN NaN
    ELSE IF a.k = "inf"
         THEN IF b.k = "inf" /\ b.s # a.s THEN NaN ELSE a
    ELSE IF b.k = "inf" THEN b
    ELSE IF IsZero(a) /\ IsZero(b)
         THEN Zero(IF a.s = 1 /\ b.s = 1 THEN 1 ELSE 0)
    ELSE IF IsZero(a) THEN b
    ELSE IF IsZero(b) THEN a
    ELSE
      LET e  == MinOf(a.e, b.e)
          na == BigShl(a.n, a.e - e)
          nb == BigShl(b.n, b.e - e)
          c  == BigCmp(na, nb)
      IN  IF a.s = b.s THEN Fin(a.s, BigAdd(na, nb), e)
          ELSE IF c = 0 THEN Zero(0)
          ELSE IF c > 0 THEN Fin(a.s, BigSub(na, nb), e)
          ELSE Fin(b.s, BigSub(nb, na), e)

\* Long division, six quotient bits at a time:
\* <<q * 2^(6 * j) + floor(r * 2^(6 * j) / b), the remainder>>,
\* for r < b < 2^24
RECURSIVE LongDiv(_, _, _, _)
LongDiv(r, b, q, j) ==
    IF j = 0 THEN <<q, r>>
    ELSE LongDiv((64 * r) % b, b, 64 * q + ((64 * r) \div b), j - 1)

\* The quotient of two binary32 values, exact down to the bits that decide
\* its rounding to binary32: 25 quotient bits and one bit that is set when
\* the remainder is not zero.
XDiv32(a, b) ==
    LET s == (a.s + b.s) % 2
    IN  IF a.k = "nan" \/ b.k = "nan" THEN NaN
        ELSE IF a.k = "inf" THEN IF b.k = "inf" THEN NaN ELSE Inf(s)
        ELSE IF b.k = "inf" THEN Zero(s)
        ELSE IF IsZero(b) THEN IF IsZero(a) THEN NaN ELSE Inf(s)
        ELSE IF IsZero(a) THEN Zero(s)
        ELSE
          LET am == BigToInt(a.n)
              bm == BigToInt(b.n)
              la == IntBitLen(am)
              lb == IntBitLen(bm)
              B  == bm * Pow2(24 - lb)
              sh == IF am * Pow2(24 - la) < B THEN 1 ELSE 0
              A  == am * Pow2(24 - la + sh)
              qr == LongDiv(A % B, B, A \div B, 4)
              N  == 2 * qr[1] + (IF qr[2] # 0 THEN 1 ELSE 0)
          IN  Fin(s, BigFromInt(N), (a.e + la) - (b.e + lb) - sh - 25)

\* a > b; FALSE when either is a NaN
XGreater(a, b) ==
    LET d == XAdd(a, XNeg(b))
    IN  d.k # "nan" /\ d.s = 0 /\ (d.k = "inf" \/ Len(d.n) # 0)

\* the operators of type float
FltAdd(a, b) == RoundTo(XAdd(a, b), F32)

FltSub(a, b) == RoundTo(XAdd(a, XNeg(b)), F32)

FltMul(a, b) == RoundTo(XMul(a, b), F32)

FltDiv(a, b) == RoundTo(XDiv32(a, b), F32)

\* the operators of type double
DblAdd(a, b) == RoundTo(XAdd(a, b), F64)

DblMul(a, b) == RoundTo(XMul(a, b), F64)

\* the conversions: int to float, double to float, float to int (truncating)
IntToX(j) == Fin(IF j < 0 THEN 1 ELSE 0, BigFromInt(IF j < 0 THEN -j ELSE j), 0)

IntToFlt(j) == RoundTo(IntToX(j), F32)

DblToFlt(v) == RoundTo(v, F32)

FltToInt(v) ==
    LET mag == IF v.e >= 0 THEN BigToInt(BigShl(v.n, v.e))
               ELSE BigToInt(BigShr(v.n, -v.e))
    IN  IF v.s = 1 THEN -mag ELSE mag

\* the value m * 2^e written as a float or double literal
Lit(m, e) == RoundTo(Fin(IF m < 0 THEN 1 ELSE 0,
                         BigFromInt(IF m < 0 THEN -m ELSE m), e), F32)

(***************************************************************************)
(* The constants of main.cc.  MAX_ITERATIONS is 100000 in the source; the  *)
(* model runs the same loop under a small iteration limit.                 *)
(***************************************************************************)
MIN_RE == Lit(-5, -1)

MAX_RE == Lit(1, 0)

MIN_IM == Lit(-1, 0)

MAX_IM == Lit(1, 0)

\* the iteration limit of the model
MaxIter == 4

MAX_ITERATIONS == MaxIter

THRESHOLD == Lit(4, 0)

screenWidth == FltToInt(FltMul(XAbs(FltSub(MAX_RE, MIN_RE)), IntToFlt(400)))

screenHeight == FltToInt(FltMul(XAbs(FltSub(MAX_IM, MIN_IM)), IntToFlt(400)))

(***************************************************************************)
(* ComputeMandelbrotRow: the pixel-to-plane mapping and the escape-time    *)
(* loop of one pixel.                                                      *)
(***************************************************************************)
scaleX(w) == FltDiv(FltSub(MAX_RE, MIN_RE), IntToFlt(w))

c_im(y) ==
    FltAdd(MIN_IM, FltDiv(FltMul(IntToFlt(y), FltSub(MAX_IM, MIN_IM)),
                          IntToFlt(screenHeight)))

c_re(w, col) == FltAdd(MIN_RE, FltMul(IntToFlt(col), scaleX(w)))

\* z_re_temp = z_re * z_re - z_im * z_im + c_re, in float
NextRe(zr, zi, cr) == FltAdd(FltSub(FltMul(zr, zr), FltMul(zi, zi)), cr)

\* z_im = 2.0 * z_re * z_im + c_im, evaluated in double as the literal 2.0
\* is a double, and converted to float by the assignment
NextIm(zr, zi, ci) ==
    DblToFlt(DblAdd(DblMul(DblMul(Lit(2, 0), zr), zi), ci))

\* the escape test with the comparison turned round
Escaped_Below(zr, zi) ==
    XGreater(THRESHOLD, FltAdd(FltMul(zr, zr), FltMul(zi, zi)))

\* z_re * z_re + z_im * z_im > THRESHOLD
Escaped(zr, zi) ==
    XGreater(FltAdd(FltMul(zr, zr), FltMul(zi, zi)), THRESHOLD)

\* the loop condition off by one: while (iterations <= MAX_ITERATIONS)
LoopCond_Inclusive(iters, maxIter) == iters <= maxIter

\* while (iterations < MAX_ITERATIONS)
LoopCond(iters, maxIter) == iters < maxIter

\* the while loop, entered with the given z and iterations
RECURSIVE EscapeLoop(_, _, _, _, _, _)
EscapeLoop(zr, zi, cr, ci, iters, maxIter) ==
    IF LoopCond(iters, maxIter)
    THEN LET nr == NextRe(zr, zi, cr)
             ni == NextIm(zr, zi, ci)
         IN  IF Escaped(nr, ni) THEN iters
             ELSE EscapeLoop(nr, ni, cr, ci, iters + 1, maxIter)
    ELSE iters

\* the value of iterations after the loop for the point c, z starting at c
Evaluate(cr, ci, maxIter) == EscapeLoop(cr, ci, cr, ci, 0, maxIter)

\* the value stored in buffer[y * w + col]: c_im and c_re are computed (the
\* locals are values before the loop uses them), the loop runs, and the int
\* iterations is converted to float
PixelValue(w, col, y) ==
    CHOOSE r \in {IntToFlt(Evaluate(c[1], c[2], MAX_ITERATIONS)) :
                     c \in {<<c_re(w, col), c_im(y)>>}} : TRUE

(***************************************************************************)
(* The program state.                                                      *)
(*   hw            the value std::thread::hardware_concurrency() returns   *)
(*   width, height the arguments of the running call of ComputeMandelbrot  *)
(*   buffer        the caller's array, cell -> float or Unwritten          *)
(*   nextRow, stealLock, threads   the globals of lines 25-27; stealLock   *)
(*                 is 0 when free, else the thread that holds it;          *)
(*                 threads[t] is TRUE while thread t is joinable           *)
(*   pc, numThreads, i, joining   the caller's thread: its position, and   *)
(*                 the locals and loop positions of ComputeMandelbrot      *)
(*   drawn, lastRead   main's drawing loop: the number of cells it has     *)
(*                 read in this frame and the value it read last (the      *)
(*                 local iterations of line 126)                           *)
(*   wpc, rowToProcess, x   each worker's position in WorkStealing and in  *)
(*                 the row loop of ComputeMandelbrotRow                    *)
(* and the record of what happened, which no action reads:                 *)
(*   pass          the number of calls of ComputeMandelbrot so far         *)
(*   claimed       the rows taken from nextRow in this pass, in order, as  *)
(*                 <<thread, row>>                                         *)
(*   writers       cell -> the threads that wrote it in this pass, in order*)
(*   oob           the indices outside the buffer that a worker wrote      *)
(* The variables k_* are those of one run of the escape-time loop on its   *)
(* own (specification EvalSpec): the point c, the iteration limit, z, the  *)
(* counter, the position, and the number of recurrence steps taken.        *)
(***************************************************************************)
VARIABLES hw, width, height, buffer, nextRow, stealLock, threads,
          pc, numThreads, i, joining, drawn, lastRead,
          wpc, rowToProcess, x,
          pass, claimed, writers, oob,
          k_c_re, k_c_im, k_max, k_z_re, k_z_im, k_iterations, k_pc, k_steps

callVars == <<width, height, buffer>>

globalVars == <<nextRow, stealLock, threads>>

mainVars == <<pc, numThreads, i, joining>>

drawVars == <<drawn, lastRead>>

workerVars == <<wpc, rowToProcess, x>>

logVars == <<pass, claimed, writers, oob>>

kernelVars ==
    <<k_c_re, k_c_im, k_max, k_z_re, k_z_im, k_iterations, k_pc, k_steps>>

programVars ==
    <<hw, callVars, globalVars, mainVars, drawVars, workerVars, logVars>>

vars == <<programVars, kernelVars>>

\* the bounds of the model
MaxHW == 3

MaxWidth == 2

MaxHeight == 2

MaxPasses == 2

\* the content of a cell of the new float[] array that was never written
Unwritten == [k |-> "unwritten", s |-> 0, n |-> << >>, e |-> 0]

Cells(w, h) == 0..(w * h - 1)

\* PixelValue, computed once for every pixel of every row a worker of the
\* model can be given: the rows of the grid, and one more for each thread
\* that could take a row after the last
PixelTable ==
    [w \in 1..MaxWidth |->
       [y \in 0..(MaxHeight + MaxHW) |->
          [col \in 0..(w - 1) |-> PixelValue(w, col, y)]]]

Pixel(w, col, y) == PixelTable[w][y][col]

\* what a read of a cell yields: its value, or any value when the cell was
\* never written
Indeterminate == {Zero(0), Lit(1, 0), NaN}

ReadCell(c) == IF buffer[c] = Unwritten THEN Indeterminate ELSE {buffer[c]}

KernelIdle ==
    /\ k_c_re = Zero(0) /\ k_c_im = Zero(0) /\ k_max = 0
    /\ k_z_re = Zero(0) /\ k_z_im = Zero(0)
    /\ k_iterations = 0 /\ k_pc = "idle" /\ k_steps = 0

\* The globals after static initialisation; main has not yet allocated the
\* buffer nor called ComputeMandelbrot.
Init ==
    /\ hw \in 0..MaxHW
    /\ width = 0 /\ height = 0 /\ buffer = << >>
    /\ nextRow = 0 /\ stealLock = 0 /\ threads = << >>
    /\ pc = "main" /\ numThreads = 0 /\ i = 0 /\ joining = 0
    /\ drawn = 0 /\ lastRead = Unwritten
    /\ wpc = << >> /\ rowToProcess = << >> /\ x = << >>
    /\ pass = 0 /\ claimed = << >> /\ writers = << >> /\ oob = {}
    /\ KernelIdle

(***************************************************************************)
(* ComputeMandelbrot, run by the caller's thread.                          *)
(***************************************************************************)
\* The caller allocates a buffer of w * h cells and calls
\* ComputeMandelbrot(buffer, w, h), which reads hardware_concurrency().
Enter(w, h) ==
    /\ width' = w /\ height' = h
    /\ buffer' = [c \in Cells(w, h) |-> Unwritten]
    /\ numThreads' = hw
    /\ i' = 0
    /\ pc' = "spawn"
    /\ drawn' = 0 /\ lastRead' = Unwritten
    /\ pass' = pass + 1
    /\ claimed' = << >>
    /\ writers' = [c \in Cells(w, h) |-> << >>]
    /\ oob' = {}
    /\ UNCHANGED <<hw, globalVars, joining, workerVars, kernelVars>>

\* main, lines 113-116
Call ==
    /\ pc = "main"
    /\ \E w \in 1..MaxWidth, h \in 1..MaxHeight : Enter(w, h)

\* A caller that calls ComputeMandelbrot again after it returned, with a new
\* buffer.  main does not; the claims about a later pass are about this.
Recall ==
    /\ pc = "returned"
    /\ pass < MaxPasses
    /\ \E w \in 1..MaxWidth, h \in 1..MaxHeight : Enter(w, h)

\* threads.emplace_back(WorkStealing, i, buffer, width, height)
Spawn ==
    /\ pc = "spawn"
    /\ i < numThreads
    /\ threads' = Append(threads, TRUE)
    /\ wpc' = Append(wpc, "lock")
    /\ rowToProcess' = Append(rowToProcess, -1)
    /\ x' = Append(x, 0)
    /\ i' = i + 1
    /\ UNCHANGED <<hw, callVars, nextRow, stealLock, pc, numThreads, joining,
                   drawVars, logVars, kernelVars>>

\* a failure to create the thread that is caught and ignored: the loop goes
\* on to the next thread
SpawnFail_Swallowed ==
    /\ pc = "spawn"
    /\ i < numThreads
    /\ i' = i + 1
    /\ UNCHANGED <<hw, callVars, globalVars, pc, numThreads, joining,
                   drawVars, workerVars, logVars, kernelVars>>

\* The platform cannot create the thread: the constructor of std::thread
\* throws std::system_error, nothing in ComputeMandelbrot or main catches
\* it, and std::terminate ends the process.
SpawnFail ==
    /\ pc = "spawn"
    /\ i < numThreads
    /\ pc' = "terminated"
    /\ UNCHANGED <<hw, callVars, globalVars, numThreads, i, joining,
                   drawVars, workerVars, logVars, kernelVars>>

\* the spawn loop ends, the join loop starts at threads.begin()
SpawnDone ==
    /\ pc = "spawn"
    /\ i >= numThreads
    /\ pc' = "join"
    /\ joining' = 1
    /\ UNCHANGED <<hw, callVars, globalVars, numThreads, i, drawVars,
                   workerVars, logVars, kernelVars>>

\* a join that does not wait for the thread to finish
Join_NoWait ==
    /\ pc = "join"
    /\ joining <= Len(threads)
    /\ threads[joining]
    /\ threads' = [threads EXCEPT ![joining] = FALSE]
    /\ joining' = joining + 1
    /\ UNCHANGED <<hw, callVars, nextRow, stealLock, pc, numThreads, i,
                   drawVars, workerVars, logVars, kernelVars>>

\* thread.join() on a joinable thread returns once the thread has finished
Join ==
    /\ pc = "join"
    /\ joining <= Len(threads)
    /\ threads[joining]
    /\ wpc[joining] = "done"
    /\ threads' = [threads EXCEPT ![joining] = FALSE]
    /\ joining' = joining + 1
    /\ UNCHANGED <<hw, callVars, nextRow, stealLock, pc, numThreads, i,
                   drawVars, workerVars, logVars, kernelVars>>

\* thread.join() on a thread that is not joinable throws std::system_error
\* (invalid_argument); uncaught, it ends the process.
JoinThrow ==
    /\ pc = "join"
    /\ joining <= Len(threads)
    /\ ~threads[joining]
    /\ pc' = "terminated"
    /\ UNCHANGED <<hw, callVars, globalVars, numThreads, i, joining,
                   drawVars, workerVars, logVars, kernelVars>>

\* the join loop ends and ComputeMandelbrot returns
Return ==
    /\ pc = "join"
    /\ joining > Len(threads)
    /\ pc' = "returned"
    /\ UNCHANGED <<hw, callVars, globalVars, numThreads, i, joining,
                   drawVars, workerVars, logVars, kernelVars>>

\* main's drawing loop reads the next cell, lines 124-130:
\* float iterations = buffer[y * screenWidth + x]
Draw ==
    /\ pc = "returned"
    /\ drawn < width * height
    /\ lastRead' \in ReadCell(drawn)
    /\ drawn' = drawn + 1
    /\ UNCHANGED <<hw, callVars, globalVars, mainVars, workerVars, logVars,
                   kernelVars>>

(***************************************************************************)
(* WorkStealing, run by thread t.  A thread runs as long as the process    *)
(* does.                                                                   *)
(***************************************************************************)
Running(t) == pc # "terminated" /\ t \in 1..Len(threads)

\* the claim step without the lock_guard
Lock_NoGuard(t) ==
    /\ Running(t)
    /\ wpc[t] = "lock"
    /\ stealLock' = t
    /\ rowToProcess' = [rowToProcess EXCEPT ![t] = -1]
    /\ wpc' = [wpc EXCEPT ![t] = "test"]
    /\ UNCHANGED <<hw, callVars, nextRow, threads, mainVars, drawVars, x,
                   logVars, kernelVars>>

\* int rowToProcess = -1; std::lock_guard lock(stealLock)
Lock(t) ==
    /\ Running(t)
    /\ wpc[t] = "lock"
    /\ stealLock = 0
    /\ stealLock' = t
    /\ rowToProcess' = [rowToProcess EXCEPT ![t] = -1]
    /\ wpc' = [wpc EXCEPT ![t] = "test"]
    /\ UNCHANGED <<hw, callVars, nextRow, threads, mainVars, drawVars, x,
                   logVars, kernelVars>>

\* the test off by one the other way: if (nextRow <= height)
HasWork_Inclusive == nextRow <= height

\* the test off by one: if (nextRow < height - 1)
HasWork_SkipsLast == nextRow < height - 1

\* if (nextRow < height)
HasWork == nextRow < height

Test(t) ==
    /\ Running(t)
    /\ wpc[t] = "test"
    /\ wpc' = [wpc EXCEPT ![t] = IF HasWork THEN "take" ELSE "unlock"]
    /\ UNCHANGED <<hw, callVars, globalVars, mainVars, drawVars,
                   rowToProcess, x, logVars, kernelVars>>

\* rowToProcess = nextRow++
Take(t) ==
    /\ Running(t)
    /\ wpc[t] = "take"
    /\ rowToProcess' = [rowToProcess EXCEPT ![t] = nextRow]
    /\ nextRow' = nextRow + 1
    /\ claimed' = Append(claimed, <<t, nextRow>>)
    /\ wpc' = [wpc EXCEPT ![t] = "unlock"]
    /\ UNCHANGED <<hw, callVars, stealLock, threads, mainVars, drawVars, x,
                   pass, writers, oob, kernelVars>>

\* a claim step that never releases stealLock
Unlock_KeepsLock(t) ==
    /\ Running(t)
    /\ wpc[t] = "unlock"
    /\ wpc' = [wpc EXCEPT ![t] = IF rowToProcess[t] = -1 THEN "done"
                                 ELSE "row"]
    /\ x' = [x EXCEPT ![t] = 0]
    /\ UNCHANGED <<hw, callVars, globalVars, mainVars, drawVars,
                   rowToProcess, logVars, kernelVars>>

\* a worker that, finding no row left, waits until no row is being computed
\* before it leaves its loop
Unlock_WaitsForRows(t) ==
    /\ Running(t)
    /\ wpc[t] = "unlock"
    /\ rowToProcess[t] = -1 => \A u \in 1..Len(threads) : wpc[u] # "row"
    /\ stealLock' = 0
    /\ wpc' = [wpc EXCEPT ![t] = IF rowToProcess[t] = -1 THEN "done"
                                 ELSE "row"]
    /\ x' = [x EXCEPT ![t] = 0]
    /\ UNCHANGED <<hw, callVars, nextRow, threads, mainVars, drawVars,
                   rowToProcess, logVars, kernelVars>>

\* a lock_guard whose scope is the whole loop body: the lock is given back
\* on break only, and kept while the row is computed
Unlock_KeepsForRow(t) ==
    /\ Running(t)
    /\ wpc[t] = "unlock"
    /\ stealLock' = IF rowToProcess[t] = -1 THEN 0 ELSE stealLock
    /\ wpc' = [wpc EXCEPT ![t] = IF rowToProcess[t] = -1 THEN "done"
                                 ELSE "row"]
    /\ x' = [x EXCEPT ![t] = 0]
    /\ UNCHANGED <<hw, callVars, nextRow, threads, mainVars, drawVars,
                   rowToProcess, logVars, kernelVars>>

\* The lock_guard goes out of scope; if (rowToProcess == -1) break; else
\* ComputeMandelbrotRow(buffer, width, rowToProcess) starts at x = 0.
Unlock(t) ==
    /\ Running(t)
    /\ wpc[t] = "unlock"
    /\ stealLock' = 0
    /\ wpc' = [wpc EXCEPT ![t] = IF rowToProcess[t] = -1 THEN "done"
                                 ELSE "row"]
    /\ x' = [x EXCEPT ![t] = 0]
    /\ UNCHANGED <<hw, callVars, nextRow, threads, mainVars, drawVars,
                   rowToProcess, logVars, kernelVars>>

\* the thread's number passed for the row:
\* ComputeMandelbrotRow(buffer, width, threadId)
RowArg_ThreadId(t) == t - 1

\* the argument y of ComputeMandelbrotRow(buffer, width, rowToProcess)
RowArg(t) == rowToProcess[t]

\* the index without the row: buffer[x]
CellIndex_NoRow(w, col, y) == col

\* buffer[y * width + x]
CellIndex(w, col, y) == y * w + col

\* one turn of the for loop of ComputeMandelbrotRow:
\* buffer[y * width + x] = iterations
WritePixel(t) ==
    /\ Running(t)
    /\ wpc[t] = "row"
    /\ x[t] < width
    /\ LET y   == RowArg(t)
           idx == CellIndex(width, x[t], y)
       IN  IF idx \in DOMAIN buffer
           THEN /\ buffer' = [buffer EXCEPT ![idx] = Pixel(width, x[t], y)]
                /\ writers' = [writers EXCEPT ![idx] = Append(@, t)]
                /\ oob' = oob
           ELSE /\ oob' = oob \cup {idx}
                /\ UNCHANGED <<buffer, writers>>
    /\ x' = [x EXCEPT ![t] = x[t] + 1]
    /\ UNCHANGED <<hw, width, height, globalVars, mainVars, drawVars, wpc,
                   rowToProcess, pass, claimed, kernelVars>>

\* the for loop ends, ComputeMandelbrotRow returns, the while loop goes on
RowDone(t) ==
    /\ Running(t)
    /\ wpc[t] = "row"
    /\ x[t] >= width
    /\ wpc' = [wpc EXCEPT ![t] = "lock"]
    /\ UNCHANGED <<hw, callVars, globalVars, mainVars, drawVars,
                   rowToProcess, x, logVars, kernelVars>>

Worker(t) ==
    \/ Lock(t)
    \/ Test(t)
    \/ Take(t)
    \/ Unlock(t)
    \/ WritePixel(t)
    \/ RowDone(t)

\* the steps of the thread that calls ComputeMandelbrot, but for a failure
\* of the platform to create a thread
MainStep ==
    \/ Call
    \/ Spawn
    \/ SpawnDone
    \/ Join
    \/ Return

(***************************************************************************)
(* The specifications.                                                     *)
(*   Spec         the program: main calls ComputeMandelbrot once           *)
(*   FairSpec     the program under a scheduler that lets every thread run *)
(*   ReentrySpec  a caller that may call ComputeMandelbrot again           *)
(***************************************************************************)
Next ==
    \/ MainStep
    \/ SpawnFail
    \/ Draw
    \/ \E t \in 1..MaxHW : Worker(t)

Spec == Init /\ [][Next]_vars

\* a step of a thread that is not a failure of the platform
Progress == MainStep \/ \E t \in 1..MaxHW : Worker(t)

\* The threads are scheduled: as long as some thread can take a step, some
\* thread takes one.  Nothing is assumed of which thread, and nothing forces
\* a thread creation to fail or main to draw.
FairSpec == Spec /\ WF_vars(Progress)

ReentryNext ==
    \/ MainStep
    \/ SpawnFail
    \/ Draw
    \/ Recall
    \/ JoinThrow
    \/ \E t \in 1..(MaxPasses * MaxHW) : Worker(t)

ReentrySpec == Init /\ [][ReentryNext]_vars

(***************************************************************************)
(* EvalSpec: the escape-time loop of lines 36-51 on its own, one           *)
(* recurrence step at a time, for a point c and an iteration limit drawn   *)
(* from bounded sets.                                                      *)
(***************************************************************************)
\* the points of the grids of up to MaxEvalWidth columns on the first rows
MaxEvalWidth == 4

MaxEvalRow == 2

GridPoints ==
    {<<c_re(p[1], p[2]), c_im(y)>> :
        p \in {q \in (1..MaxEvalWidth) \X (0..(MaxEvalWidth - 1)) :
                  q[2] < q[1]},
        y \in 0..MaxEvalRow}

\* (0,0), (-0,0), (2,2), (-0.75,0), (0.25,0), (0,1), (-2,0), a point whose
\* first z has a squared magnitude that overflows the float range, and two
\* points whose own squares do
OtherPoints ==
    { <<Zero(0), Zero(0)>>, <<Zero(1), Zero(0)>>, <<Lit(2, 0), Lit(2, 0)>>,
      <<Lit(-3, -2), Zero(0)>>, <<Lit(1, -2), Zero(0)>>,
      <<Zero(0), Lit(1, 0)>>, <<Lit(-2, 0), Zero(0)>>,
      <<Lit(1, 40), Lit(1, 40)>>,
      <<Lit(1, 127), Lit(1, 127)>>, <<Lit(1, 127), Zero(0)>> }

EvalPoints == GridPoints \cup OtherPoints

ProgramIdle ==
    /\ hw = 0
    /\ width = 0 /\ height = 0 /\ buffer = << >>
    /\ nextRow = 0 /\ stealLock = 0 /\ threads = << >>
    /\ pc = "main" /\ numThreads = 0 /\ i = 0 /\ joining = 0
    /\ drawn = 0 /\ lastRead = Unwritten
    /\ wpc = << >> /\ rowToProcess = << >> /\ x = << >>
    /\ pass = 0 /\ claimed = << >> /\ writers = << >> /\ oob = {}

\* float z_re = c_re, z_im = c_im; int iterations = 0
EvalInit ==
    /\ ProgramIdle
    /\ \E c \in EvalPoints :
          /\ k_c_re = c[1] /\ k_c_im = c[2]
          /\ k_z_re = c[1] /\ k_z_im = c[2]
    /\ k_max \in 0..MAX_ITERATIONS
    /\ k_iterations = 0
    /\ k_steps = 0
    /\ k_pc = "loop"

\* a turn of the loop that tests z before it updates it
LoopStep_TestOldZ ==
    /\ k_pc = "loop"
    /\ LoopCond(k_iterations, k_max)
    /\ k_z_re' = NextRe(k_z_re, k_z_im, k_c_re)
    /\ k_z_im' = NextIm(k_z_re, k_z_im, k_c_im)
    /\ k_steps' = k_steps + 1
    /\ IF Escaped(k_z_re, k_z_im)
       THEN k_pc' = "done" /\ k_iterations' = k_iterations
       ELSE k_pc' = "loop" /\ k_iterations' = k_iterations + 1
    /\ UNCHANGED <<programVars, k_c_re, k_c_im, k_max>>

\* a turn of the loop that counts before it tests:
\* ++iterations; if (...) break;
LoopStep_CountFirst ==
    /\ k_pc = "loop"
    /\ LoopCond(k_iterations, k_max)
    /\ k_z_re' = NextRe(k_z_re, k_z_im, k_c_re)
    /\ k_z_im' = NextIm(k_z_re, k_z_im, k_c_im)
    /\ k_steps' = k_steps + 1
    /\ k_iterations' = k_iterations + 1
    /\ k_pc' = IF Escaped(NextRe(k_z_re, k_z_im, k_c_re),
                          NextIm(k_z_re, k_z_im, k_c_im))
               THEN "done" ELSE "loop"
    /\ UNCHANGED <<programVars, k_c_re, k_c_im, k_max>>

\* one turn of the while loop: the new z, the escape test, then either
\* break or ++iterations
LoopStep ==
    /\ k_pc = "loop"
    /\ LoopCond(k_iterations, k_max)
    /\ k_z_re' = NextRe(k_z_re, k_z_im, k_c_re)
    /\ k_z_im' = NextIm(k_z_re, k_z_im, k_c_im)
    /\ k_steps' = k_steps + 1
    /\ IF Escaped(NextRe(k_z_re, k_z_im, k_c_re),
                  NextIm(k_z_re, k_z_im, k_c_im))
       THEN k_pc' = "done" /\ k_iterations' = k_iterations
       ELSE k_pc' = "loop" /\ k_iterations' = k_iterations + 1
    /\ UNCHANGED <<programVars, k_c_re, k_c_im, k_max>>

\* the loop condition fails
LoopExit ==
    /\ k_pc = "loop"
    /\ ~LoopCond(k_iterations, k_max)
    /\ k_pc' = "done"
    /\ UNCHANGED <<programVars, k_c_re, k_c_im, k_max, k_z_re, k_z_im,
                   k_iterations, k_steps>>

EvalNext ==
    \/ LoopStep
    \/ LoopExit

EvalSpec == EvalInit /\ [][EvalNext]_vars

(***************************************************************************)
(* The claims.                                                             *)
(***************************************************************************)
\* v is a float that is exactly an integer of 0..MAX_ITERATIONS
IsCount(v) ==
    /\ v.k = "fin"
    /\ FltToInt(v) \in 0..MAX_ITERATIONS
    /\ IntToFlt(FltToInt(v)) = v

PassReturned == pc = "returned" /\ numThreads >= 1

WrittenCells == {c \in DOMAIN buffer : buffer[c] # Unwritten}

AllDone == \A t \in 1..Len(threads) : wpc[t] = "done"

\* C1: when ComputeMandelbrot returns from a pass with at least one worker,
\* every cell of 0..width*height-1 has been written and holds an integer of
\* 0..MAX_ITERATIONS.
C1_AllCellsWritten ==
    PassReturned =>
        /\ DOMAIN buffer = Cells(width, height)
        /\ \A c \in Cells(width, height) :
              /\ Len(writers[c]) >= 1
              /\ IsCount(buffer[c])

C1_Witness ==
    /\ PassReturned
    /\ numThreads >= 2
    /\ width * height >= 4
    /\ WrittenCells = Cells(width, height)

\* C2: in a pass the rows taken from the cursor are 0, 1, 2, ... in this
\* order, each once, none outside 0..height-1, and when the pass has
\* returned they are all of 0..height-1.
C2_RowClaimsExact ==
    /\ \A n \in 1..Len(claimed) :
          claimed[n][2] = n - 1 /\ claimed[n][2] < height
    /\ pc = "returned" => Len(claimed) = height

\* What holds of the row claims: no duplicate, no gap before a claimed row,
\* no row outside 0..height-1, and all rows when a pool that is not empty
\* has been joined.
RowClaimsWithWorkers ==
    /\ \A n \in 1..Len(claimed) :
          claimed[n][2] = n - 1 /\ claimed[n][2] < height
    /\ PassReturned => Len(claimed) = height

\* C3: ComputeMandelbrot has returned, or main has read a cell, only when
\* every thread of the pool has finished and has been joined; no worker
\* then runs, holds the lock or holds a row.
C3_ReturnAfterJoin ==
    (pc = "returned" \/ drawn > 0) =>
        /\ AllDone
        /\ \A t \in 1..Len(threads) : ~threads[t]
        /\ stealLock = 0

C3_Witness ==
    /\ pc = "returned"
    /\ drawn > 0
    /\ Len(threads) >= 2
    /\ Len(claimed) >= 2

\* the buffer that a grid of w columns and h rows determines
ExpectedBuffer(w, h) == [c \in Cells(w, h) |-> Pixel(w, c % w, c \div w)]

\* C4: the buffer after a pass is the one the grid determines, whatever the
\* number of workers hardware_concurrency() gives and their interleaving.
C4_Deterministic ==
    pc = "returned" => buffer = ExpectedBuffer(width, height)

\* What holds of the buffer: it is the one the grid determines after a pass
\* of a pool that is not empty.
DeterministicWithWorkers ==
    PassReturned => buffer = ExpectedBuffer(width, height)

\* C5: in a pass no cell is written twice, nothing is written outside the
\* buffer, and when the pass has returned each cell has been written once,
\* by one worker.  No action of a worker reads buffer.
C5_WrittenOnce ==
    /\ \A c \in DOMAIN writers : Len(writers[c]) <= 1
    /\ oob = {}
    /\ pc = "returned" => \A c \in Cells(width, height) : Len(writers[c]) = 1

\* What holds of the writes: never two to a cell, none outside the buffer,
\* and one to each cell after a pass of a pool that is not empty.
WrittenOnceWithWorkers ==
    /\ \A c \in DOMAIN writers : Len(writers[c]) <= 1
    /\ oob = {}
    /\ PassReturned => \A c \in Cells(width, height) : Len(writers[c]) = 1

\* C6: ComputeMandelbrot always spawns at least one worker: past the spawn
\* loop the pool is not empty.
C6_AtLeastOneWorker ==
    pc \in {"join", "returned"} => Len(threads) >= 1

\* C7: every call of ComputeMandelbrot starts with the cursor at 0.
C7_CursorFreshEachPass ==
    (pc = "spawn" /\ i = 0) => nextRow = 0

Completed ==
    /\ pc = "returned"
    /\ AllDone
    /\ stealLock = 0
    /\ Cardinality(WrittenCells) = width * height

InPass == pc \in {"spawn", "join"} /\ numThreads >= 1

\* C8: under fair scheduling a pass with at least one worker runs to
\* completion: ComputeMandelbrot returns with every worker finished and
\* width*height cells written, unless the platform fails to create a thread;
\* once the pool is created nothing aborts the pass.
C8_PassCompletes ==
    /\ InPass ~> (Completed \/ pc = "terminated")
    /\ [][pc = "join" => pc' \in {"join", "returned"}]_vars

C8_Witness ==
    /\ Completed
    /\ numThreads = MaxHW
    /\ height = 1
    /\ Len(claimed) = 1

\* what is left of the loop: the steps it may still take, and its exit
Remaining == (k_max - k_steps) + (IF k_pc = "loop" THEN 1 ELSE 0)

CountBound ==
    /\ k_steps <= k_max
    /\ k_iterations \in 0..k_max
    /\ k_pc = "done" => k_iterations = Evaluate(k_c_re, k_c_im, k_max)

\* C9: the loop takes at most k_max recurrence steps, every step of it
\* brings its end nearer (so it terminates), and its counter is an integer
\* of 0..k_max, which is the value of Evaluate.
C9_BoundedCount ==
    [](CountBound) /\ [][Remaining' < Remaining /\ Remaining' >= 0]_vars

C9_Witness ==
    /\ k_pc = "done"
    /\ k_max = MAX_ITERATIONS
    /\ k_steps = k_max
    /\ k_iterations = k_max

\* C10: for c = (0,0) z stays at 0, the escape test never succeeds, and the
\* loop ends with iterations = k_max.
C10_OriginNeverEscapes ==
    (IsZero(k_c_re) /\ IsZero(k_c_im)) =>
        /\ IsZero(k_z_re) /\ IsZero(k_z_im)
        /\ k_iterations = k_steps
        /\ k_pc = "done" => k_iterations = k_max

C10_Witness ==
    /\ k_c_re = Zero(0) /\ k_c_im = Zero(0)
    /\ k_pc = "done"
    /\ k_max = MAX_ITERATIONS
    /\ k_iterations = MAX_ITERATIONS

AtTwoTwo == k_c_re = Lit(2, 0) /\ k_c_im = Lit(2, 0)

\* C11: for c = (2,2) the first recurrence step gives z = (2,10), the escape
\* test succeeds on it, and the loop ends with iterations = 0: no step is
\* counted, and there is no second step.
C11_TwoTwoEscapesAtOnce ==
    AtTwoTwo =>
        /\ k_iterations = 0
        /\ k_steps <= 1
        /\ k_steps = 1 =>
              /\ k_pc = "done"
              /\ k_z_re = Lit(2, 0) /\ k_z_im = Lit(10, 0)
              /\ Escaped(k_z_re, k_z_im)
        /\ (k_pc = "done" /\ k_max >= 1) => k_steps = 1

C11_Witness ==
    /\ AtTwoTwo
    /\ k_pc = "done"
    /\ k_max = MAX_ITERATIONS
    /\ k_steps = 1
    /\ k_iterations = 0

\* C12: a thread that cannot be created ends the pass and the process:
\* ComputeMandelbrot reaches its join loop and returns only with all of its
\* numThreads threads created, and once the process is terminated no thread
\* takes a step: no further thread is created (no retry), no row is claimed
\* or written, ComputeMandelbrot does not return and main reads no cell.
C12_SpawnFailureIsFatal ==
    /\ [](pc \in {"join", "returned"} => Len(threads) = numThreads)
    /\ [](pc = "terminated" => drawn = 0 /\ i < numThreads)
    /\ [][pc # "terminated"]_vars

C12_Witness ==
    /\ pc = "terminated"
    /\ Len(threads) >= 1
    /\ Len(threads) < numThreads
    /\ WrittenCells # {}
    /\ WrittenCells # Cells(width, height)

\* the workers that found no row left: they hold -1 after their test
FoundNoWork == {t \in 1..Len(threads) : wpc[t] = "done"}

\* C13: in the pass nextRow stays in 0..height however many workers try to
\* claim after the last row is taken, no step decreases it, and when a pass
\* with at least one worker has returned it is >= height.
C13_CursorInRange ==
    /\ [](nextRow \in 0..height)
    /\ [][nextRow' >= nextRow]_vars
    /\ [](PassReturned => nextRow >= height)

C13_Witness ==
    /\ PassReturned
    /\ height = 1
    /\ nextRow = height
    /\ Cardinality(FoundNoWork) = MaxHW
    /\ Cardinality({claimed[n][1] : n \in 1..Len(claimed)}) = 1

\* the workers inside the guarded section of lines 60-65
InClaim == {t \in 1..Len(threads) : wpc[t] \in {"test", "take", "unlock"}}

\* C14: at most one worker is inside the guarded claim section, it is the
\* holder of stealLock, nextRow changes only by a step of that worker, which
\* takes the value it read and leaves it one higher, and no two claims
\* recorded in a pass are of the same row.
C14_ClaimAtomic ==
    /\ [](/\ Cardinality(InClaim) <= 1
          /\ \A t \in InClaim : stealLock = t
          /\ \A m, n \in 1..Len(claimed) :
                m # n => claimed[m][2] # claimed[n][2])
    /\ [][nextRow' # nextRow =>
            \E t \in InClaim :
               /\ wpc[t] = "take" /\ stealLock = t
               /\ rowToProcess'[t] = nextRow
               /\ nextRow' = nextRow + 1]_vars

C14_Witness ==
    \E t, u \in 1..Len(threads) :
       /\ t # u
       /\ wpc[t] = "take" /\ stealLock = t
       /\ wpc[u] = "lock"
       /\ Len(claimed) >= 1

\* the workers inside ComputeMandelbrotRow
InRow == {t \in 1..Len(threads) : wpc[t] = "row"}

\* C15: a worker inside ComputeMandelbrotRow does not hold stealLock: the
\* holder, if any, is inside the claim section.  So while workers compute
\* rows, a worker that waits for the lock with nobody in the claim section
\* can take it at once.
C15_NoLockInRow ==
    /\ \A t \in InRow : stealLock # t
    /\ stealLock # 0 => stealLock \in InClaim
    /\ \A u \in 1..Len(threads) :
          (pc # "terminated" /\ wpc[u] = "lock" /\ InClaim = {})
              => ENABLED Lock(u)

C15_Witness ==
    \E t, u \in 1..Len(threads) :
       /\ t # u
       /\ wpc[t] = "row" /\ x[t] < width
       /\ wpc[u] = "take" /\ stealLock = u
       /\ nextRow = rowToProcess[t] + 1

\* C16: the pool is of one pass: a call of ComputeMandelbrot starts with no
\* thread in threads, and its join loop meets only threads that are still
\* joinable, never one that an earlier pass has joined.
C16_PoolOfOnePass ==
    /\ (pc = "spawn" /\ i = 0) => threads = << >>
    /\ (pc = "join" /\ joining <= Len(threads)) => threads[joining]

\* the squared magnitude of z, as a float
Magnitude2(zr, zi) == FltAdd(FltMul(zr, zr), FltMul(zi, zi))

\* z_re^2 + z_im^2 > threshold
Exceeds(zr, zi) == XGreater(Magnitude2(zr, zi), THRESHOLD)

\* z_re^2 + z_im^2 <= threshold, which no NaN satisfies
Within(zr, zi) ==
    Magnitude2(zr, zi).k # "nan" /\ ~XGreater(Magnitude2(zr, zi), THRESHOLD)

\* c is of a magnitude a grid can give (and far beyond: below 2^62), so that
\* no step of the loop computes inf - inf
InRange ==
    /\ ~XGreater(XAbs(k_c_re), Lit(1, 62))
    /\ ~XGreater(XAbs(k_c_im), Lit(1, 62))

\* what the updated z of a counted step satisfies: it did not exceed the
\* threshold, which for a c in range is z_re^2 + z_im^2 <= threshold
Kept ==
    /\ ~Exceeds(k_z_re, k_z_im)
    /\ InRange => Within(k_z_re, k_z_im)

\* C17: the test is on the updated z and before the increment.  While the
\* loop runs every step so far was counted and its updated z was within the
\* threshold; the loop ends either after k_max counted steps, none of which
\* exceeded the threshold, or on a step that is not counted, the first
\* whose updated z exceeds the threshold, with less than k_max counted.
C17_CountsStepsWithin ==
    /\ k_pc = "loop" =>
          /\ k_iterations = k_steps
          /\ k_steps >= 1 => Kept
    /\ k_pc = "done" =>
          \/ /\ k_iterations = k_max
             /\ k_steps = k_max
             /\ k_steps >= 1 => Kept
          \/ /\ k_iterations < k_max
             /\ k_steps = k_iterations + 1
             /\ Exceeds(k_z_re, k_z_im)

C17_Witness ==
    /\ InRange
    /\ k_pc = "done"
    /\ k_max = MAX_ITERATIONS
    /\ k_iterations >= 1
    /\ k_iterations < k_max
    /\ Exceeds(k_z_re, k_z_im)

\* the imaginary coordinate of row y scaled by the height h of the pass
c_im_OfHeight(h, y) ==
    FltAdd(MIN_IM, FltDiv(FltMul(IntToFlt(y), FltSub(MAX_IM, MIN_IM)),
                          IntToFlt(h)))

\* C18: the imaginary coordinate of every row claimed in a pass is
\* MIN_IM + y * (MAX_IM - MIN_IM) / height for the height of the pass, and
\* the real coordinate of every column is MIN_RE + x * (MAX_RE - MIN_RE) /
\* width for its width.
C18_MappingOfThePass ==
    \A n \in 1..Len(claimed) :
       /\ c_im(claimed[n][2]) = c_im_OfHeight(height, claimed[n][2])
       /\ \A col \in 0..(width - 1) :
             c_re(width, col) =
                FltAdd(MIN_RE,
                       FltMul(IntToFlt(col),
                              FltDiv(FltSub(MAX_RE, MIN_RE), IntToFlt(width))))

\* the cells of row y of a grid of w columns
RowCells(w, y) == (y * w)..(y * w + w - 1)

\* C19: every write is inside the buffer and into the row its writer had
\* claimed; no cell is written twice; a worker inside ComputeMandelbrotRow
\* for row y has written the first x cells of that row and no other of it,
\* and a worker that left it has written all of them.
C19_WritesOwnRowOnly ==
    /\ oob = {}
    /\ \A c \in DOMAIN writers :
          /\ Len(writers[c]) <= 1
          /\ \A k \in 1..Len(writers[c]) :
                \E n \in 1..Len(claimed) :
                   /\ claimed[n] = <<writers[c][k], c \div width>>
                   /\ c \in RowCells(width, claimed[n][2])
    /\ \A n \in 1..Len(claimed) :
          LET t == claimed[n][1]
              y == claimed[n][2]
              done == IF rowToProcess[t] = y /\ wpc[t] \in {"take", "unlock"}
                      THEN 0
                      ELSE IF rowToProcess[t] = y /\ wpc[t] = "row"
                      THEN x[t]
                      ELSE width
          IN  \A col \in 0..(width - 1) :
                 writers[y * width + col] =
                    IF col < done THEN <<t>> ELSE << >>

C19_Witness ==
    /\ pc = "returned"
    /\ width >= 2 /\ height >= 2
    /\ \E c \in RowCells(width, 0), d \in RowCells(width, 1) :
          /\ Len(writers[c]) = 1 /\ Len(writers[d]) = 1
          /\ writers[c] # writers[d]

\* worker t holds the lock and the cursor shows no row left
AtEnd(t) == wpc[t] \in {"test", "unlock"} /\ rowToProcess[t] = -1
            /\ nextRow >= height

\* C20: a worker that holds the guard and finds nextRow >= height can take
\* each of its steps to the end of WorkStealing whatever the other workers
\* do: its test and its exit are enabled in every such state, the test
\* leaves it without a row, and its next step is the break, with the lock
\* given back.
C20_IndependentExit ==
    /\ [](\A t \in 1..Len(threads) :
             (pc # "terminated" /\ AtEnd(t)) => ENABLED (Test(t) \/ Unlock(t)))
    /\ [][\A t \in 1..Len(threads) :
             (AtEnd(t) /\ wpc'[t] # wpc[t]) =>
                 /\ rowToProcess'[t] = -1
                 /\ wpc[t] = "test" => wpc'[t] = "unlock"
                 /\ wpc[t] = "unlock" => wpc'[t] = "done" /\ stealLock' = 0]_vars

C20_Witness ==
    \E t, u \in 1..Len(threads) :
       /\ t # u
       /\ pc = "join" /\ joining = 1
       /\ wpc[t] = "done"
       /\ wpc[u] = "row" /\ x[u] = 0
       /\ nextRow >= height

====
